---- MODULE Spec2Model ----
(***************************************************************************)
(* A model of the flatmates scraper (src/main.py): the crawl-resume loop   *)
(* of FlatmatesScraper.run over the three files it persists                *)
(* (scraped_links.txt, listings_cache.json, listing_data_<slug>.csv), the  *)
(* pagination loop, and the per-listing field extraction.                  *)
(*                                                                         *)
(* Text is a sequence of one-character strings, so that strip(), lower(),  *)
(* the "in" substring test, re.search(r"\d+"), int() and ", ".join() are   *)
(* computed as Python computes them.                                       *)
(***************************************************************************)
EXTENDS Integers, Sequences, FiniteSets, TLC

\* ------------------------------------------------------------------ bounds

\* Listing tiles the site shows over all the search-result pages of one crawl.
MaxTiles == 2
\* Data rows over all output files: once they are written no further run starts.
MaxRows == 2
\* Room-detail entries on a listing page of the extraction specification.
MaxDetails == 2

\* ------------------------------------------------------------------- text

\* Python's None, where a record (a dict, a dataclass, a page) is expected.
None == [none |-> TRUE]
\* The text of an element find_element did not find (NoSuchElementException).
NoSuchElement == <<"NoSuchElementException">>
\* What re.search returns when nothing matches.
NoMatch == <<>>

NA == <<"N", "/", "A">>
MinusOne == -1

Digits == <<"0", "1", "2", "3", "4", "5", "6", "7", "8", "9">>
UpperCase == <<"A", "B", "C", "D", "E", "F", "G", "H", "I", "J", "K", "L", "M",
               "N", "O", "P", "Q", "R", "S", "T", "U", "V", "W", "X", "Y", "Z">>
LowerCase == <<"a", "b", "c", "d", "e", "f", "g", "h", "i", "j", "k", "l", "m",
               "n", "o", "p", "q", "r", "s", "t", "u", "v", "w", "x", "y", "z">>
Whitespace == {" ", "\t", "\n"}

IsDigit(c) == \E d \in 1..10 : Digits[d] = c
DigitValue(c) == (CHOOSE d \in 1..10 : Digits[d] = c) - 1

\* str.lower()
lower(s) ==
    [k \in 1..Len(s) |->
        IF \E j \in 1..26 : UpperCase[j] = s[k]
        THEN LowerCase[CHOOSE j \in 1..26 : UpperCase[j] = s[k]]
        ELSE s[k]]

\* str.strip()
strip(s) ==
    LET keep == {k \in 1..Len(s) : s[k] \notin Whitespace}
    IN  IF keep = {} THEN <<>>
        ELSE LET lo == CHOOSE k \in keep : \A j \in keep : k <= j
                 hi == CHOOSE k \in keep : \A j \in keep : k >= j
             IN  SubSeq(s, lo, hi)

\* sub in s
contains(sub, s) ==
    \E k \in 0..(Len(s) - Len(sub)) : SubSeq(s, k + 1, k + Len(sub)) = sub

\* re.search(r"\d+", s).group(): the leftmost, longest run of digits, or NoMatch.
re_search_digits(s) ==
    LET starts == {k \in 1..Len(s) : IsDigit(s[k])}
    IN  IF starts = {} THEN NoMatch
        ELSE LET lo == CHOOSE k \in starts : \A j \in starts : k <= j
                 ends == {k \in lo..Len(s) : \A j \in lo..k : IsDigit(s[j])}
                 hi == CHOOSE k \in ends : \A j \in ends : k >= j
             IN  SubSeq(s, lo, hi)

\* int(digits)
RECURSIVE int(_)
int(ds) ==
    IF ds = <<>> THEN 0
    ELSE 10 * int(SubSeq(ds, 1, Len(ds) - 1)) + DigitValue(ds[Len(ds)])

\* sep.join(parts)
RECURSIVE join(_, _)
join(sep, parts) ==
    IF parts = <<>> THEN <<>>
    ELSE IF Len(parts) = 1 THEN parts[1]
    ELSE parts[1] \o sep \o join(sep, Tail(parts))

CommaSpace == <<",", " ">>

\* ------------------------------------------------------- the listing page

(* A rendered listing page, as the XPath queries of get_listing_data see   *)
(* it.  root: whether an element with initial_tracking_context_schema_data *)
(* exists.  price, about, mates, district: the text of the one element the *)
(* query finds, or NoSuchElement.  features, tags: the texts of the        *)
(* elements find_elements returns, an empty list when none matches.        *)
(* details: the room-detail entries, each with the text of its title span  *)
(* and of its subtitle span, or NoSuchElement for a span that is missing.  *)

\* dataclass ListingData: the fields in declaration order.
ListingData ==
    <<"url", "district", "price_per_week", "beds", "baths", "persons",
      "room_overview", "availability_min_stay", "property_features",
      "property_about", "flatmates_about">>

\* price_per_week of get_listing_data: the first number of the rent text.
price_per_week(page) ==
    IF page.price = NoSuchElement THEN MinusOne
    ELSE IF re_search_digits(page.price) = NoMatch THEN MinusOne
    ELSE int(re_search_digits(page.price))

_get_property_data(page) ==
    LET f == page.features
    IN  [beds    |-> IF Len(f) > 0 THEN f[1] ELSE NA,
         baths   |-> IF Len(f) > 1 THEN f[2] ELSE NA,
         persons |-> IF Len(f) > 2 THEN f[3] ELSE NA]

\* detail = f"{title_text}{f' ({subtitle_text})' if subtitle_text else ''}"
DetailText(entry) ==
    LET title_text == strip(entry.title)
        subtitle_text == strip(entry.sub)
    IN  IF subtitle_text # <<>>
        THEN title_text \o <<" ", "(">> \o subtitle_text \o <<")">>
        ELSE title_text

\* "stay" in title_text.lower() or "available" in subtitle_text.lower()
IsAvailability(entry) ==
    \/ contains(<<"s", "t", "a", "y">>, lower(strip(entry.title)))
    \/ contains(<<"a", "v", "a", "i", "l", "a", "b", "l", "e">>, lower(strip(entry.sub)))

_get_room_data(page) ==
    LET els == page.details
    IN  IF \E k \in 1..Len(els) :
               els[k].title = NoSuchElement \/ els[k].sub = NoSuchElement
        THEN [room_overview |-> NA, availability_min_stay |-> NA]
        ELSE LET hits == {k \in 1..Len(els) : IsAvailability(els[k])}
             IN  [room_overview |->
                      join(CommaSpace, [k \in 1..Len(els) |-> DetailText(els[k])]),
                  availability_min_stay |->
                      IF hits = {} THEN NA
                      ELSE DetailText(els[CHOOSE k \in hits : \A j \in hits : k >= j])]

ElementText(el) == IF el = NoSuchElement THEN NA ELSE el

_get_about_data(page) ==
    [property_features |-> join(CommaSpace, page.tags),
     property_about    |-> ElementText(page.about),
     flatmates_about   |-> ElementText(page.mates),
     district          |-> ElementText(page.district)]

get_listing_data(listing_link, page) ==
    IF ~page.root THEN None
    ELSE LET property_data == _get_property_data(page)
             room_data == _get_room_data(page)
             about_data == _get_about_data(page)
         IN  [url |-> listing_link,
              district |-> about_data.district,
              price_per_week |-> price_per_week(page),
              beds |-> property_data.beds,
              baths |-> property_data.baths,
              persons |-> property_data.persons,
              room_overview |-> room_data.room_overview,
              availability_min_stay |-> room_data.availability_min_stay,
              property_features |-> about_data.property_features,
              property_about |-> about_data.property_about,
              flatmates_about |-> about_data.flatmates_about]

\* ------------------------------------------------------------ the site

\* Listing URLs the site may show on its search-result pages.
ListingURLs == {"u1", "u2"}

(* Filter URLs a run may be given, as text after the host name.            *)
Sydney == <<"/", "r", "/", "s", "y", "d", "/">>
Melbourne == <<"/", "r", "/", "m", "e", "l", "?", "m", "=", "9">>
FilterURLs == {Sydney, Melbourne}
\* self.base_url when no process runs.
NoURL == <<>>
\* A listing link when none is at hand.
NoLink == "None"
\* A listing tile that holds no content link (NoSuchElementException).
NoLinkElement == "NoSuchElementException"

\* urlparse(url).path: the text before the query string
url_path(url) ==
    LET marks == {k \in 1..Len(url) : url[k] = "?"}
    IN  IF marks = {} THEN url
        ELSE SubSeq(url, 1, (CHOOSE k \in marks : \A j \in marks : k <= j) - 1)

\* str.strip("/")
strip_slash(s) ==
    LET keep == {k \in 1..Len(s) : s[k] # "/"}
    IN  IF keep = {} THEN <<>>
        ELSE LET lo == CHOOSE k \in keep : \A j \in keep : k <= j
                 hi == CHOOSE k \in keep : \A j \in keep : k >= j
             IN  SubSeq(s, lo, hi)

\* str.replace("/", "-")
replace_slash(s) == [k \in 1..Len(s) |-> IF s[k] = "/" THEN "-" ELSE s[k]]

\* urlparse(base_url).path.strip("/").replace("/", "-")
url_slug(base_url) == replace_slash(strip_slash(url_path(base_url)))

\* Path(f"listing_data_{self.url_slug}.csv"): a file is named by its slug.
csv_filename(base_url) == url_slug(base_url)
CsvFiles == {csv_filename(b) : b \in FilterURLs}

\* f"{self.base_url}{separator}page={page_num}"
page_url(base_url, page_num) ==
    [base |-> base_url,
     separator |-> IF "?" \in {base_url[k] : k \in 1..Len(base_url)} THEN "&" ELSE "?",
     page |-> page_num]

RECURSIVE SeqsUpTo(_, _)
SeqsUpTo(S, n) ==
    IF n = 0 THEN {<<>>}
    ELSE LET shorter == SeqsUpTo(S, n - 1)
         IN  shorter \cup {Append(q, x) : q \in {r \in shorter : Len(r) = n - 1}, x \in S}

(* A search-result page: its listing tiles in document order, each the     *)
(* href of its content link or NoLinkElement when the tile holds no such   *)
(* link, and whether the "Go to next page" control is there.  The site     *)
(* shows MaxTiles tiles at most over the pages of one crawl: once `shown`  *)
(* tiles were served, a page holds at most the rest, and the page that     *)
(* holds the last of them has no next-page control.                        *)
RECURSIVE TilesShown(_)
TilesShown(pages) ==
    IF pages = <<>> THEN 0 ELSE Len(pages[1].tiles) + TilesShown(Tail(pages))

SearchPages(shown) ==
    {[tiles |-> t, next |-> x] :
         t \in SeqsUpTo(ListingURLs \cup {NoLinkElement}, MaxTiles - shown),
         x \in BOOLEAN} \ {[tiles |-> t, next |-> TRUE] :
         t \in {q \in SeqsUpTo(ListingURLs \cup {NoLinkElement}, MaxTiles - shown) :
                    Len(q) = MaxTiles - shown /\ Len(q) > 0}}

Text_Room == <<"R", "m">>
Text_MinStay == <<"S", "t", "a", "y">>
Text_Avail == <<" ", "A", "v", "a", "i", "l", "a", "b", "l", "e", " ">>
Text_Weeks == <<"2", "w">>
Text_Rent == <<"$", "2", "5", " ", "8">>
Text_Ask == <<"A", "s", "k">>
Text_One == <<"1">>
Text_Two == <<"2">>
Text_Three == <<"3">>
Text_Gym == <<"G", "y", "m">>
Text_About == <<"S", "u", "n">>
Text_Mates == <<"Q">>
Text_District == <<"K", "e", "w">>

\* A listing page that rendered without its root data element.
NoRootPage ==
    [root |-> FALSE, price |-> NoSuchElement, features |-> <<>>, details |-> <<>>,
     tags |-> <<>>, about |-> NoSuchElement, mates |-> NoSuchElement,
     district |-> NoSuchElement]
\* A listing page with every expected element.
FullPage ==
    [root |-> TRUE, price |-> Text_Rent,
     features |-> <<Text_One, Text_Two, Text_Three>>,
     details |-> <<[title |-> Text_MinStay, sub |-> Text_Weeks]>>,
     tags |-> <<Text_Gym>>, about |-> Text_About, mates |-> Text_Mates,
     district |-> Text_District]
\* A listing page with the root data element and nothing else.
BarePage == [NoRootPage EXCEPT !.root = TRUE]

(* What driver.get(listing_link) may render during a crawl: the listing's  *)
(* page, or a page on which the root data element did not appear in time.  *)
SitePages(listing_link) ==
    {NoRootPage, IF listing_link = "u1" THEN FullPage ELSE BarePage}

\* ------------------------------------------------------------- the state

VARIABLES
    scraped_links_txt,   \* scraped_links.txt: its lines (no file: no lines)
    listings_cache_json, \* listings_cache.json: None (no file) or the cached record
    csv,                 \* csv[f]: whether listing_data_<f>.csv exists, and its lines
    pc,                  \* where the one scraper process is; "idle": none runs
    base_url,            \* self.base_url
    scraped_links,       \* self.scraped_links, read once by __init__
    all_listing_links,   \* all_listing_links of run / extract_all_listing_links
    page_num,            \* page_num of extract_all_listing_links
    new_listing_links,   \* new_listing_links of run
    i,                   \* index of the link _scrape_listings is at
    link,                \* link of _scrape_listings
    page,                \* the listing page the driver holds
    listing_data,        \* listing_data of _scrape_listings
    requested,           \* history: the page URLs the pagination in progress requested
    seen,                \* history: the search-result pages it was served
    run_ok,              \* history: no get_listing_data of this run returned None
    prev,                \* history: the filter URL and links of the run that just
                         \*   completed with run_ok, else None
    prev_page,           \* extraction specification: the page loaded before
    prev_data            \* extraction specification: the record extracted from it

files == <<scraped_links_txt, listings_cache_json, csv>>
locals == <<base_url, scraped_links, all_listing_links, page_num,
            new_listing_links, i, link, page, listing_data>>
history == <<requested, seen, run_ok, prev>>
extraction == <<prev_page, prev_data>>
vars == <<files, pc, locals, history, extraction>>

Range(s) == {s[k] : k \in 1..Len(s)}

HeaderLine == [header |-> TRUE, cells |-> ListingData]
\* pd.DataFrame([asdict(listing_data)]).to_csv(header=False, index=False)
RowLine(data) == [header |-> FALSE, cells |-> [k \in 1..Len(ListingData) |-> data[ListingData[k]]]]

NoFile == [exists |-> FALSE, lines |-> <<>>]
DataRows(f) == SelectSeq(csv[f].lines, LAMBDA l : ~l.header)
TotalRows == LET n[F \in SUBSET CsvFiles] ==
                     IF F = {} THEN 0
                     ELSE LET f == CHOOSE g \in F : TRUE
                          IN  Len(DataRows(f)) + n[F \ {f}]
             IN  n[CsvFiles]

Init ==
    /\ scraped_links_txt = <<>>
    /\ listings_cache_json = None
    /\ csv = [f \in CsvFiles |-> NoFile]
    /\ pc = "idle"
    /\ base_url = NoURL
    /\ scraped_links = <<>>
    /\ all_listing_links = <<>>
    /\ page_num = 0
    /\ new_listing_links = <<>>
    /\ i = 0
    /\ link = NoLink
    /\ page = None
    /\ listing_data = None
    /\ requested = <<>>
    /\ seen = <<>>
    /\ run_ok = TRUE
    /\ prev = None
    /\ prev_page = None
    /\ prev_data = None

\* The process is gone: nothing of it is left but the files.
ProcessGone ==
    /\ pc' = "idle"
    /\ base_url' = NoURL
    /\ scraped_links' = <<>>
    /\ all_listing_links' = <<>>
    /\ page_num' = 0
    /\ new_listing_links' = <<>>
    /\ i' = 0
    /\ link' = NoLink
    /\ page' = None
    /\ listing_data' = None
    /\ requested' = <<>>
    /\ seen' = <<>>
    /\ run_ok' = TRUE

\* ------------------------------------------------------------ operations

\* Path("scraped_links.txt").read_text().splitlines() if it exists else []
_read_scraped_links == scraped_links_txt

\* FlatmatesScraper(input_url): __init__
Start(input_url) ==
    /\ pc = "idle"
    /\ TotalRows < MaxRows
    /\ pc' = "get_links"
    /\ base_url' = input_url
    /\ scraped_links' = _read_scraped_links
    /\ run_ok' = TRUE
    /\ UNCHANGED <<files, all_listing_links, page_num, new_listing_links, i, link,
                   page, listing_data, requested, seen, prev,
                   extraction>>

\* Faulty variant: the cached list itself is tested for truth, so an empty one misses.
CacheHit_EmptyListMisses(cached_listings, url) ==
    /\ cached_listings # None
    /\ cached_listings.listing_links # <<>>
    /\ cached_listings.filter_url = url

\* if cached_listings and cached_listings.get("filter_url") == self.base_url
CacheHit(cached_listings, url) ==
    cached_listings # None /\ cached_listings.filter_url = url

\* _get_listing_links, up to the cache test
_get_listing_links ==
    /\ pc = "get_links"
    /\ IF CacheHit(listings_cache_json, base_url)
       THEN /\ all_listing_links' = listings_cache_json.listing_links
            /\ pc' = "filter"
            /\ UNCHANGED page_num
       ELSE /\ all_listing_links' = <<>>
            /\ page_num' = 1
            /\ pc' = "paginate"
    /\ UNCHANGED <<files, base_url, scraped_links, new_listing_links, i, link, page,
                   listing_data, history, extraction>>

\* _verify_listings_present: a listing tile is found
ListingsPresent(p) == p.tiles # <<>>

\* Faulty variant: the missing next-page control goes unnoticed.
_has_next_page_Always(p) == TRUE

\* _has_next_page
_has_next_page(p) == p.next

\* extract_listing_links_from_page: the hrefs of the tiles that hold a link
extract_listing_links_from_page(p) ==
    SelectSeq(p.tiles, LAMBDA t : t # NoLinkElement)

HasDuplicate(s) == \E j, k \in 1..Len(s) : j # k /\ s[j] = s[k]

\* extract_all_listing_links: one turn of its while loop
extract_all_listing_links ==
    /\ pc = "paginate"
    /\ \E p \in SearchPages(TilesShown(seen)) :
          /\ requested' = Append(requested, page_url(base_url, page_num))
          /\ seen' = Append(seen, p)
          /\ IF ~ListingsPresent(p)
             THEN /\ pc' = "cache"
                  /\ UNCHANGED <<all_listing_links, page_num>>
             ELSE /\ all_listing_links' =
                         all_listing_links \o extract_listing_links_from_page(p)
                  /\ IF _has_next_page(p)
                     THEN /\ page_num' = page_num + 1
                          /\ pc' = "paginate"
                     ELSE /\ pc' = "cache"
                          /\ UNCHANGED page_num
    /\ UNCHANGED <<files, base_url, scraped_links, new_listing_links, i, link, page,
                   listing_data, run_ok, prev, extraction>>

\* _cache_listings, after extract_all_listing_links has returned
_cache_listings ==
    /\ pc = "cache"
    /\ listings_cache_json' =
           [filter_url |-> base_url, listing_links |-> all_listing_links]
    /\ pc' = "filter"
    /\ requested' = <<>>
    /\ seen' = <<>>
    /\ UNCHANGED <<scraped_links_txt, csv, locals, run_ok, prev,
                   extraction>>

\* Faulty variant: the processed set is not consulted.
NewListingLinks_Unfiltered(links, scraped) == links

\* Faulty variant: the first new link is dropped.
NewListingLinks_SkipsFirst(links, scraped) ==
    LET new == SelectSeq(links, LAMBDA l : l \notin Range(scraped))
    IN  IF new = <<>> THEN new ELSE Tail(new)

\* [link for link in all_listing_links if link not in self.scraped_links]
NewListingLinks(links, scraped) ==
    SelectSeq(links, LAMBDA l : l \notin Range(scraped))

\* run: the new links
FilterNewLinks ==
    /\ pc = "filter"
    /\ new_listing_links' = NewListingLinks(all_listing_links, scraped_links)
    /\ pc' = "create_csv"
    /\ UNCHANGED <<files, base_url, scraped_links, all_listing_links, page_num, i,
                   link, page, listing_data, history, extraction>>

\* Faulty variant: the header is written without looking for the file.
CsvMissing_Always(f) == TRUE

\* not self.csv_filename.exists()
CsvMissing(f) == ~csv[f].exists

\* run: if not self.csv_filename.exists(): self._create_csv_file()
_create_csv_file ==
    /\ pc = "create_csv"
    /\ csv' = IF CsvMissing(csv_filename(base_url))
              THEN [csv EXCEPT ![csv_filename(base_url)] =
                              [exists |-> TRUE, lines |-> <<HeaderLine>>]]
              ELSE csv
    /\ i' = 1
    /\ pc' = "scrape"
    /\ UNCHANGED <<scraped_links_txt, listings_cache_json, base_url, scraped_links,
                   all_listing_links, page_num, new_listing_links, link, page,
                   listing_data, history, extraction>>

\* _scrape_listings: driver.get of the next link
LoadListing ==
    /\ pc = "scrape"
    /\ i <= Len(new_listing_links)
    /\ link' = new_listing_links[i]
    /\ page' \in SitePages(link')
    /\ pc' = "loaded"
    /\ UNCHANGED <<files, base_url, scraped_links, all_listing_links, page_num,
                   new_listing_links, i, listing_data, history, extraction>>

\* Faulty variant: _save_scraped_link sits outside the "if listing_data:" block.
ScrapeBranch_LinkAlways(data) == IF data # None THEN "save_data" ELSE "save_link"

\* _scrape_listings: where "if listing_data:" leads
ScrapeBranch(data) == IF data # None THEN "save_data" ELSE "scrape"

\* _scrape_listings: get_listing_data and the test of what it returned
GetListingData ==
    /\ pc = "loaded"
    /\ listing_data' = get_listing_data(link, page)
    /\ pc' = ScrapeBranch(listing_data')
    /\ run_ok' = (run_ok /\ listing_data' # None)
    /\ IF pc' = "scrape"
       THEN i' = i + 1 /\ link' = NoLink /\ page' = None
       ELSE UNCHANGED <<i, link, page>>
    /\ UNCHANGED <<files, base_url, scraped_links, all_listing_links, page_num,
                   new_listing_links, requested, seen, prev,
                   extraction>>

\* _save_listing_data
_save_listing_data ==
    /\ pc = "save_data"
    /\ TotalRows < MaxRows
    /\ csv' = [csv EXCEPT ![csv_filename(base_url)] =
                  [exists |-> TRUE, lines |-> Append(@.lines, RowLine(listing_data))]]
    /\ pc' = "save_link"
    /\ UNCHANGED <<scraped_links_txt, listings_cache_json, locals, history, extraction>>

\* _save_scraped_link, and the loop's next turn
_save_scraped_link ==
    /\ pc = "save_link"
    /\ scraped_links_txt' = Append(scraped_links_txt, link)
    /\ i' = i + 1
    /\ link' = NoLink
    /\ page' = None
    /\ listing_data' = None
    /\ pc' = "scrape"
    /\ UNCHANGED <<listings_cache_json, csv, base_url, scraped_links,
                   all_listing_links, page_num, new_listing_links, history,
                   extraction>>

\* _scrape_listings: the for loop is exhausted
LoopDone ==
    /\ pc = "scrape"
    /\ i > Len(new_listing_links)
    /\ pc' = "done"
    /\ UNCHANGED <<files, locals, history, extraction>>

\* run returns and the process exits
Finish ==
    /\ pc = "done"
    /\ prev' = IF run_ok
               THEN [filter_url |-> base_url, listing_links |-> all_listing_links]
               ELSE None
    /\ ProcessGone
    /\ UNCHANGED <<files, extraction>>

\* The process is interrupted or killed, at any point of a run.
Crash ==
    /\ pc \notin {"idle", "done"}
    /\ prev' = None
    /\ ProcessGone
    /\ UNCHANGED <<files, extraction>>

Next ==
    \/ \E input_url \in FilterURLs : Start(input_url)
    \/ _get_listing_links
    \/ extract_all_listing_links
    \/ _cache_listings
    \/ FilterNewLinks
    \/ _create_csv_file
    \/ LoadListing
    \/ GetListingData
    \/ _save_listing_data
    \/ _save_scraped_link
    \/ LoopDone
    \/ Finish
    \/ Crash

Spec == Init /\ [][Next]_vars

\* ------------------------------------------- the extraction, on its own

\* Room-detail entries and listing pages the extraction is applied to.
DetailEntries ==
    {[title |-> t, sub |-> u] :
         t \in {Text_MinStay, Text_Room}, u \in {Text_Weeks, Text_Avail, <<" ">>}}
ListingPages ==
    {NoRootPage} \cup
    {[root |-> TRUE, price |-> pr, features |-> fe, details |-> de, tags |-> ta,
      about |-> ab, mates |-> ma, district |-> di] :
         pr \in {NoSuchElement, Text_Rent, Text_Ask},
         fe \in {SubSeq(<<Text_One, Text_Two, Text_Three>>, 1, n) : n \in 0..3},
         de \in SeqsUpTo(DetailEntries, MaxDetails),
         ta \in {<<>>, <<Text_Gym>>},
         ab \in {NoSuchElement, Text_About},
         ma \in {NoSuchElement, Text_Mates},
         di \in {NoSuchElement, Text_District}}

RemoveAt(q, k) == SubSeq(q, 1, k - 1) \o SubSeq(q, k + 1, Len(q))

\* The elements of a page that a query of get_listing_data expects.
Elements(p) ==
    {[kind |-> k, at |-> 0] :
         k \in {x \in {"price", "about", "mates", "district"} : p[x] # NoSuchElement}}
    \cup {[kind |-> "features", at |-> n] : n \in 1..Len(p.features)}
    \cup {[kind |-> "tags", at |-> n] : n \in 1..Len(p.tags)}
    \cup {[kind |-> "details", at |-> n] : n \in 1..Len(p.details)}
    \cup {[kind |-> "title", at |-> n] :
              n \in {m \in 1..Len(p.details) : p.details[m].title # NoSuchElement}}
    \cup {[kind |-> "sub", at |-> n] :
              n \in {m \in 1..Len(p.details) : p.details[m].sub # NoSuchElement}}

\* The page without one of its elements.
Without(p, e) ==
    IF e.kind \in {"price", "about", "mates", "district"}
    THEN [p EXCEPT ![e.kind] = NoSuchElement]
    ELSE IF e.kind \in {"features", "tags", "details"}
    THEN [p EXCEPT ![e.kind] = RemoveAt(@, e.at)]
    ELSE [p EXCEPT !.details[e.at][e.kind] = NoSuchElement]

InitExtract ==
    /\ scraped_links_txt = <<>>
    /\ listings_cache_json = None
    /\ csv = [f \in CsvFiles |-> NoFile]
    /\ pc = "loaded"
    /\ base_url = NoURL
    /\ scraped_links = <<>>
    /\ all_listing_links = <<>>
    /\ page_num = 0
    /\ new_listing_links = <<>>
    /\ i = 0
    /\ link = "u1"
    /\ page \in ListingPages
    /\ listing_data = None
    /\ requested = <<>>
    /\ seen = <<>>
    /\ run_ok = TRUE
    /\ prev = None
    /\ prev_page = None
    /\ prev_data = None

\* get_listing_data on the page the driver holds
ExtractRecord ==
    /\ pc = "loaded"
    /\ listing_data' = get_listing_data(link, page)
    /\ pc' = "extracted"
    /\ UNCHANGED <<files, base_url, scraped_links, all_listing_links, page_num,
                   new_listing_links, i, link, page, history, extraction>>

\* driver.get of the same listing, which now lacks one element
LoadVariant ==
    /\ pc = "extracted"
    /\ prev_page = None
    /\ \E e \in Elements(page) : page' = Without(page, e)
    /\ prev_page' = page
    /\ prev_data' = listing_data
    /\ listing_data' = None
    /\ pc' = "loaded"
    /\ UNCHANGED <<files, base_url, scraped_links, all_listing_links, page_num,
                   new_listing_links, i, link, history>>

NextExtract == ExtractRecord \/ LoadVariant

SpecExtract == InitExtract /\ [][NextExtract]_vars

\* ------------------------------------------------------------ properties

\* The data rows of file f that carry listing URL u in their first cell.
RowsFor(f, u) == Len(SelectSeq(DataRows(f), LAMBDA l : l.cells[1] = u))
OwnFile == csv_filename(base_url)
HasRow(u) == \E f \in CsvFiles : RowsFor(f, u) >= 1

\* A page at which the pagination stops: no listing tile, or no next-page control.
Stops(p) == p.tiles = <<>> \/ ~p.next
\* The links of a list of search-result pages, in page order.
RECURSIVE LinksOf(_)
LinksOf(pages) ==
    IF pages = <<>> THEN <<>>
    ELSE SelectSeq(pages[1].tiles, LAMBDA t : t \in ListingURLs) \o LinksOf(Tail(pages))

(* C1: the output file never holds two data rows for the same listing URL, *)
(* whatever runs came before and wherever they were interrupted.  Stated   *)
(* for the runs most favourable to the claim, those whose discovered list  *)
(* names no URL twice: when such a run has just appended the row of a      *)
(* link, that row is the only row for the link in the run's output file.   *)
C1_CrashSafeNoDuplicateRows ==
    (pc = "save_link" /\ ~HasDuplicate(all_listing_links))
        => RowsFor(OwnFile, link) <= 1

(* C2: whenever get_listing_data has loaded a listing URL, that URL is not *)
(* in scraped_links.txt at that moment.                                    *)
C2_LoadedNotProcessed ==
    pc = "loaded" => link \notin Range(scraped_links_txt)

(* C3: the pagination requests page=1, 2, 3, ... of the filter URL in      *)
(* order, none skipped or repeated; it goes on only past pages that have   *)
(* tiles and a next-page control, and it has returned exactly when the     *)
(* last page it requested, page k, has no tiles or no next-page control;   *)
(* what it returns is the links of pages 1..k in page order (a tile-less   *)
(* page k adds none, and the links collected before it are kept); after    *)
(* it has returned no page is requested.                                   *)
C3_PaginationTermination ==
    /\ [](/\ Len(requested) = Len(seen)
          /\ \A k \in 1..Len(requested) :
                /\ requested[k].base = base_url
                /\ requested[k].page = k
          /\ pc = "paginate" =>
                /\ page_num = Len(seen) + 1
                /\ \A k \in 1..Len(seen) : ~Stops(seen[k])
                /\ all_listing_links = LinksOf(seen)
          /\ pc = "cache" =>
                /\ Len(seen) >= 1
                /\ \A k \in 1..(Len(seen) - 1) : ~Stops(seen[k])
                /\ Stops(seen[Len(seen)])
                /\ all_listing_links = LinksOf(seen))
    /\ [][pc = "cache" => (pc' # "paginate" /\ requested' \in {requested, <<>>})]_vars

\* C3: the pagination has stopped at a tile-less page 2 and kept page 1's links.
C3_Witness ==
    /\ pc = "cache"
    /\ Len(seen) = 2
    /\ seen[2].tiles = <<>>
    /\ all_listing_links # <<>>

\* The last line of a file.
LastLine(f) == csv[f].lines[Len(csv[f].lines)]

(* C4: when a listing page has its root data element, get_listing_data     *)
(* returns a record that is appended to the output file, and every field   *)
(* whose expected elements are absent from the page holds its sentinel:    *)
(* "N/A" for the text fields, -1 for price_per_week.                       *)
C4_SentinelSubstitution ==
    /\ (pc \in {"save_data", "save_link"}) => listing_data # None
    /\ pc = "save_link" =>
          /\ LastLine(OwnFile).cells[1] = link
          /\ page.price = NoSuchElement => listing_data.price_per_week = -1
          /\ Len(page.features) < 1 => listing_data.beds = NA
          /\ Len(page.features) < 2 => listing_data.baths = NA
          /\ Len(page.features) < 3 => listing_data.persons = NA
          /\ page.details = <<>> =>
                /\ listing_data.room_overview = NA
                /\ listing_data.availability_min_stay = NA
          /\ page.tags = <<>> => listing_data.property_features = NA
          /\ page.about = NoSuchElement => listing_data.property_about = NA
          /\ page.mates = NoSuchElement => listing_data.flatmates_about = NA
          /\ page.district = NoSuchElement => listing_data.district = NA

\* The fields of the record that element e of page p feeds.
Feeds(p, e) ==
    IF e.kind = "price" THEN {"price_per_week"}
    ELSE IF e.kind = "about" THEN {"property_about"}
    ELSE IF e.kind = "mates" THEN {"flatmates_about"}
    ELSE IF e.kind = "district" THEN {"district"}
    ELSE IF e.kind = "features" THEN {"beds", "baths", "persons"}
    ELSE IF e.kind = "tags" THEN {"property_features"}
    ELSE {"room_overview"} \cup
         (IF IsAvailability(p.details[e.at]) THEN {"availability_min_stay"} ELSE {})

(* C5: when a listing page is extracted, and then the same page without    *)
(* one expected element, every field of the record other than the fields   *)
(* that element feeds has the same value both times; a span missing in     *)
(* one room-detail entry leaves availability_min_stay, taken from another  *)
(* entry, as it was.                                                       *)
C5_IndependentFields ==
    (pc = "extracted" /\ prev_page # None /\ prev_data # None /\ listing_data # None)
        => \A e \in Elements(prev_page) :
              Without(prev_page, e) = page
                  => \A k \in 1..Len(ListingData) :
                        ListingData[k] \notin Feeds(prev_page, e)
                            => listing_data[ListingData[k]] = prev_data[ListingData[k]]

\* The run in progress follows a completed run of the same filter URL, in which
\* every listing was extracted, and has discovered the same links (once it has any).
Rerun ==
    /\ pc # "idle"
    /\ prev # None
    /\ prev.filter_url = base_url
    /\ pc \notin {"get_links", "paginate", "cache"}
          => all_listing_links = prev.listing_links

(* C6: a run that follows a completed run of the same filter URL in which  *)
(* every discovered listing was extracted, and that discovers the same     *)
(* links, loads no listing page and leaves the output files and the        *)
(* processed-set file as they were.                                        *)
C6_IdempotentRerun ==
    [][Rerun' => /\ csv' = csv
                 /\ scraped_links_txt' = scraped_links_txt
                 /\ pc' # "loaded"]_vars

\* C6: such a second run has gone through a non-empty list of links to its end.
C6_Witness ==
    /\ Rerun
    /\ pc = "done"
    /\ all_listing_links # <<>>

(* C7: _get_listing_links returns the cached list without paginating if    *)
(* and only if the cache file exists and its filter_url is the base URL,   *)
(* an empty cached list included; otherwise it paginates.  The cache file  *)
(* changes only when a pagination has returned, and then to the base URL   *)
(* with the full list of that pagination.                                  *)
C7_CacheKeyedByFilter ==
    [][/\ (pc = "get_links" /\ pc' # "idle") =>
              IF listings_cache_json # None /\ listings_cache_json.filter_url = base_url
              THEN /\ pc' = "filter"
                   /\ all_listing_links' = listings_cache_json.listing_links
                   /\ requested' = <<>>
                   /\ listings_cache_json' = listings_cache_json
              ELSE /\ pc' = "paginate"
                   /\ page_num' = 1
       /\ listings_cache_json' # listings_cache_json =>
              /\ pc = "cache"
              /\ Len(seen) >= 1
              /\ Stops(seen[Len(seen)])
              /\ \A k \in 1..(Len(seen) - 1) : ~Stops(seen[k])
              /\ listings_cache_json' =
                     [filter_url |-> base_url, listing_links |-> LinksOf(seen)]]_vars

\* C7: a run took an empty cached list from the cache and did not paginate.
C7_Witness ==
    /\ pc = "filter"
    /\ page_num = 0
    /\ listings_cache_json # None
    /\ listings_cache_json.listing_links = <<>>
    /\ all_listing_links = <<>>

C8_Columns ==
    <<"url", "district", "price_per_week", "beds", "baths", "persons",
      "room_overview", "availability_min_stay", "property_features",
      "property_about", "flatmates_about">>
IsPrefix(a, b) == Len(a) <= Len(b) /\ SubSeq(b, 1, Len(a)) = a

(* C8: an output file that exists starts with the one header line, which   *)
(* names the 11 columns, and every other line is a data row of 11 fields;  *)
(* a file that exists is only ever appended to (the header is not written  *)
(* again), and an appended row holds the fields of the extracted record    *)
(* in the order of the header.                                             *)
C8_OutputShape ==
    /\ [](\A f \in CsvFiles :
              IF csv[f].exists
              THEN /\ Len(csv[f].lines) >= 1
                   /\ csv[f].lines[1].header
                   /\ csv[f].lines[1].cells = C8_Columns
                   /\ \A k \in 2..Len(csv[f].lines) :
                         /\ ~csv[f].lines[k].header
                         /\ Len(csv[f].lines[k].cells) = 11
              ELSE csv[f].lines = <<>>)
    /\ [][\A f \in CsvFiles :
              /\ csv[f].exists =>
                    /\ csv'[f].exists
                    /\ IsPrefix(csv[f].lines, csv'[f].lines)
              /\ (csv[f].exists /\ csv'[f] # csv[f]) =>
                    /\ Len(csv'[f].lines) = Len(csv[f].lines) + 1
                    /\ \A k \in 1..11 :
                          csv'[f].lines[Len(csv'[f].lines)].cells[k]
                              = listing_data[csv[f].lines[1].cells[k]]]_vars

\* C8: a run that discovered one link has appended its row to an output file
\* that an earlier run had left with a header and a row.
C8_Witness ==
    /\ pc = "save_link"
    /\ Len(all_listing_links) = 1
    /\ Len(csv[OwnFile].lines) >= 3

(* C9: every URL in scraped_links.txt has a data row in some output file,  *)
(* also after an interruption at any point; and only a listing whose page  *)
(* has the root data element is given a row or a processed-set entry.      *)
C9_ProcessedImpliesRecorded ==
    /\ \A u \in Range(scraped_links_txt) : HasRow(u)
    /\ pc \in {"save_data", "save_link"} => (page.root /\ listing_data # None)

\* C9: a run was interrupted after the row and before the processed-set entry.
C9_Witness ==
    /\ pc = "idle"
    /\ scraped_links_txt # <<>>
    /\ \E u \in ListingURLs : HasRow(u) /\ u \notin Range(scraped_links_txt)

(* C10, as claimed: after a run completes in which every loaded listing    *)
(* page had its root data element, every discovered listing URL has a      *)
(* data row in the run's own output file.                                  *)
C10_CompleteInOwnFile ==
    (pc = "done" /\ run_ok)
        => \A u \in Range(all_listing_links) : RowsFor(OwnFile, u) >= 1

(* C10, amended: after such a run every discovered listing URL has a data  *)
(* row in some output file, and in the run's own output file if the URL    *)
(* was not in the processed set when the run started.                      *)
C10_CompleteInSomeFile ==
    (pc = "done" /\ run_ok)
        => \A u \in Range(all_listing_links) :
              /\ HasRow(u)
              /\ u \notin Range(scraped_links) => RowsFor(OwnFile, u) >= 1

\* C10: a completed run skipped a URL another filter's run had processed, and
\* scraped another one itself.
C10_Witness ==
    /\ pc = "done"
    /\ run_ok
    /\ \E u \in Range(all_listing_links) :
          u \in Range(scraped_links) /\ RowsFor(OwnFile, u) = 0
    /\ \E u \in Range(all_listing_links) : u \notin Range(scraped_links)

====
